---- MODULE Spec2Model ----
(***************************************************************************)
(* Model of backend_technical_exercise.py: the chunked, type-aware column  *)
(* similarity run.  main() is the orchestrator process, process_chunk()    *)
(* runs in the workers of the multiprocessing pool, compare_columns() is   *)
(* the scorer.  The numerical kernels (sklearn's hashed cosine similarity, *)
(* scipy's pearsonr) are external libraries: what they return for a pair   *)
(* of columns is drawn from a small set of outcomes (a value, NaN, or an   *)
(* exception); everything the repository's own code does with that result  *)
(* (type dispatch, abs, the except clauses, the threshold, the collection, *)
(* set(), sorted()) is modelled as written.                                *)
(* Scores are in hundredths: 80 is 0.8, 100 is 1.0.                        *)
(***************************************************************************)
EXTENDS Integers, Sequences, FiniteSets

\* ------------------------------------------------------------- bounds
\* Largest number of row chunks (dask partitions) of dataset A.
MaxChunks == 2
\* mp.cpu_count(): the number of worker processes of the pool.
CpuCount == 2

\* Column names of dataset A and of dataset B, in file order.
ColumnsA == <<"id", "price">>
ColumnsB == <<"cost">>

\* Column dtypes read_csv can produce (datetime64 stands for every dtype
\* that is neither string-like nor numeric).
Dtypes == {"object", "int64", "float64", "datetime64"}

\* Values the numerical kernels are taken to return (hundredths).
RawScores == {-90, 80, 90, 100}

Chunks == 1..MaxChunks
NumPairs == Len(ColumnsA) * Len(ColumnsB)

VARIABLES
    exists1,               \* os.path.exists(file_path1)
    exists2,               \* os.path.exists(file_path2)
    dtype1,                \* dtypes of dataset A's columns (dask meta)
    dtype2,                \* dtypes of dataset B's columns
    npartitions,           \* number of 10MB blocks of dataset A's file
    pc,                    \* main()'s position
    dataframe2,            \* TRUE once dataset B is in memory
    dataframe1,            \* TRUE once dataset A's lazy frame exists
    types_df1,             \* classification of A (from head(1))
    types_df2,             \* classification of B
    process_pool,          \* "none", "open", "closed", "joined"
    k,                     \* index of the chunk the for loop is at
    tasks,                 \* per chunk: its apply_async task
    handled,               \* per chunk: how main() finished with it
    similar_columns_list,  \* main()'s collected matches
    final,                 \* the list after sorted(set(...))
    stdout,                \* the lines printed so far
    exc,                   \* the operation whose exception left the outer try
    exit_status,           \* the process's exit status, once pc = "exited"
    run,                   \* 1, or 2 in a second run on the same inputs
    first_final            \* the first run's final list (second run only)

\* What the run is given: the two files.
inputs == <<exists1, exists2, dtype1, dtype2, npartitions>>

vars == <<inputs, pc, dataframe2, dataframe1,
          types_df1, types_df2, process_pool, k, tasks, handled,
          similar_columns_list, final, stdout, exc, exit_status, run,
          first_final>>

\* ------------------------------------------------------------- floats
\* A float: a number of hundredths, or NaN.
Num(v) == [nan |-> FALSE, v |-> v]
NaN == [nan |-> TRUE, v |-> 0]
Zero == Num(0)

\* abs(x); abs(nan) is nan.
Abs(x) == IF x.nan THEN x ELSE Num(IF x.v < 0 THEN -x.v ELSE x.v)

\* x > y on floats: every comparison with NaN is False.
Greater(x, y) == ~x.nan /\ ~y.nan /\ x.v > y.v

\* ------------------------------------------------------ printed lines
Line(kind, a, b, s) == [kind |-> kind, a |-> a, b |-> b, s |-> s]
Info(text) == Line("info", text, "", 0)
MissingFilesLine == Line("missing_files", "", "", 0)
\* sample is "type1" (Sample 1) or "type2" (Sample 2).
TypeLine(sample, name, type) == Line(sample, name, type, 0)
ChunkErrorLine == Line("chunk_error", "", "", 0)
ScorerErrorLine == Line("scorer_error", "", "", 0)
PairErrorLine(a, b) == Line("pair_error", a, b, 0)
FatalLine == Line("fatal", "", "", 0)
MatchLine(t) == Line("match", t[1], t[2], t[3])

\* ---------------------------------------------------- TypeClassifier
IsStringDtype(d) == d = "object"
IsNumericDtype(d) == d \in {"int64", "float64"}

ColumnType(d) ==
    IF IsStringDtype(d) THEN "string"
    ELSE IF IsNumericDtype(d) THEN "numeric"
    ELSE "unknown"

\* determine_column_types over a frame whose columns have dtypes dt.
determine_column_types(cols, dt) ==
    [i \in DOMAIN cols |-> ColumnType(dt[i])]

\* -------------------------------------------------- SimilarityScorer
\* The dispatch with the numeric test weakened to "either is numeric".
DispatchEitherNumeric(d1, d2) ==
    IF IsStringDtype(d1) /\ IsStringDtype(d2) THEN "cosine"
    ELSE IF IsNumericDtype(d1) \/ IsNumericDtype(d2) THEN "pearson"
    ELSE "mismatch"

\* Which branch of compare_columns a pair of dtypes takes.
Dispatch(d1, d2) ==
    IF IsStringDtype(d1) /\ IsStringDtype(d2) THEN "cosine"
    ELSE IF IsNumericDtype(d1) /\ IsNumericDtype(d2) THEN "pearson"
    ELSE "mismatch"

\* What the library call of a branch can do on some pair of columns: raise
\* (pearsonr on sequences of different lengths, on fewer than two rows, ...)
\* or return a value; pearsonr returns NaN on a constant input.  On the
\* mismatch branch no library is called.
Raised == [raise |-> TRUE, r |-> Zero]
Returned(r) == [raise |-> FALSE, r |-> r]
LibOutcomes(path) ==
    IF path = "mismatch" THEN {Returned(Zero)}
    ELSE {Raised} \cup {Returned(Num(v)) : v \in RawScores}
         \cup (IF path = "pearson" THEN {Returned(NaN)} ELSE {})

\* What happened in the library during a call of compare_columns.
KernelEvent(path, lib) ==
    IF path = "mismatch" THEN "not_called"
    ELSE IF lib.raise THEN "raised"
    ELSE IF lib.r.nan THEN "nan"
    ELSE "value"

\* compare_columns without its except clause: the exception propagates.
compare_columns_no_except(d1, d2, lib) ==
    LET path == Dispatch(d1, d2)
    IN  IF path = "mismatch"
        THEN [raised |-> FALSE, value |-> Zero, printed |-> <<>>]
        ELSE IF lib.raise
        THEN [raised |-> TRUE, value |-> Zero, printed |-> <<>>]
        ELSE IF path = "cosine"
        THEN [raised |-> FALSE, value |-> lib.r, printed |-> <<>>]
        ELSE [raised |-> FALSE, value |-> Abs(lib.r), printed |-> <<>>]

\* compare_columns(column1, column2) on columns of dtypes d1 and d2, lib
\* being what the library call does on their values.  raised: an exception
\* leaves the function; value: the float returned; printed: its output.
compare_columns(d1, d2, lib) ==
    LET path == Dispatch(d1, d2)
    IN  IF path = "mismatch"
        THEN [raised |-> FALSE, value |-> Zero, printed |-> <<>>]
        ELSE IF lib.raise
        THEN [raised |-> FALSE, value |-> Zero, printed |-> <<ScorerErrorLine>>]
        ELSE IF path = "cosine"
        THEN [raised |-> FALSE, value |-> lib.r, printed |-> <<>>]
        ELSE [raised |-> FALSE, value |-> Abs(lib.r), printed |-> <<>>]

\* ----------------------------------------------------- ChunkProcessor
\* The threshold of process_chunk, in hundredths.
Threshold == 80

\* The filter with >= in place of >.
PassesThresholdInclusive(score) == ~score.nan /\ score.v >= Threshold

\* similarity_score > 0.8
PassesThreshold(score) == Greater(score, Num(Threshold))

\* The n-th pair of the nested loops: column_name1 outer, column_name2 inner.
PairAt(n) ==
    [i |-> ((n - 1) \div Len(ColumnsB)) + 1,
     j |-> ((n - 1) % Len(ColumnsB)) + 1]

\* A task that was never submitted.
NoTask ==
    [state |-> "none", n |-> 0, similarity_score |-> Zero,
     kernel |-> "not_called", similar_columns |-> <<>>]

\* One iteration of process_chunk's inner loop body on task t: the call of
\* compare_columns, the threshold test and the append, or the except clause.
\* n counts the pairs done; kernel records what the library did in the call.
LoopBody(t, lib) ==
    LET p == PairAt(t.n + 1)
        d1 == dtype1[p.i]
        d2 == dtype2[p.j]
        res == compare_columns(d1, d2, lib)
        triple == <<ColumnsA[p.i], ColumnsB[p.j], res.value.v>>
    IN  IF res.raised
        THEN [task |-> [t EXCEPT !.n = t.n + 1,
                                 !.kernel = KernelEvent(Dispatch(d1, d2), lib)],
              printed |-> res.printed
                          \o <<PairErrorLine(ColumnsA[p.i], ColumnsB[p.j])>>]
        ELSE [task |-> [t EXCEPT !.n = t.n + 1,
                                 !.kernel = KernelEvent(Dispatch(d1, d2), lib),
                                 !.similarity_score = res.value,
                                 !.similar_columns =
                                     IF PassesThreshold(res.value)
                                     THEN Append(t.similar_columns, triple)
                                     ELSE t.similar_columns],
              printed |-> res.printed]

\* ---------------------------------------------------- ResultAggregator
ToSet(seq) == {seq[i] : i \in DOMAIN seq}

\* The orders in which iterating over set S can yield its elements.  The
\* order follows the elements' hashes, and str hashes are salted per
\* process: any order is possible.
RECURSIVE IterationOrders(_)
IterationOrders(S) ==
    IF S = {} THEN {<<>>}
    ELSE UNION {{<<x>> \o rest : rest \in IterationOrders(S \ {x})} : x \in S}

\* x put into a list sorted by score descending, behind every entry whose
\* score is not smaller (the sort is stable).
RECURSIVE InsertDescending(_, _)
InsertDescending(x, sorted) ==
    IF sorted = <<>> THEN <<x>>
    ELSE IF Head(sorted)[3] >= x[3]
    THEN <<Head(sorted)>> \o InsertDescending(x, Tail(sorted))
    ELSE <<x>> \o sorted

\* sorted(seq, key=lambda x: x[2], reverse=True)
RECURSIVE SortedByScore(_)
SortedByScore(seq) ==
    IF seq = <<>> THEN <<>>
    ELSE InsertDescending(seq[Len(seq)],
                          SortedByScore(SubSeq(seq, 1, Len(seq) - 1)))

\* ------------------------------------------------------------ main()
\* The file check with "and" in place of "or".
FilesMissingBoth == ~exists1 /\ ~exists2

\* not os.path.exists(file_path1) or not os.path.exists(file_path2)
FilesMissing == ~exists1 \/ ~exists2

Init ==
    /\ exists1 \in BOOLEAN
    /\ exists2 \in BOOLEAN
    /\ dtype1 \in [DOMAIN ColumnsA -> Dtypes]
    /\ dtype2 \in [DOMAIN ColumnsB -> Dtypes]
    /\ npartitions \in Chunks
    /\ pc = "check_files"
    /\ dataframe2 = FALSE
    /\ dataframe1 = FALSE
    /\ types_df1 = [i \in DOMAIN ColumnsA |-> "unset"]
    /\ types_df2 = [i \in DOMAIN ColumnsB |-> "unset"]
    /\ process_pool = "none"
    /\ k = 0
    /\ tasks = [c \in Chunks |-> NoTask]
    /\ handled = [c \in Chunks |-> "pending"]
    /\ similar_columns_list = <<>>
    /\ final = <<>>
    /\ stdout = <<>>
    /\ exc = "none"
    /\ exit_status = 0
    /\ run = 1
    /\ first_final = <<>>

\* An exception of operation op leaves the outer try block's body.
RaiseToOuter(op) ==
    /\ pc' = "except"
    /\ exc' = op

\* Lines 93-95: the existence check; sys.exit(1) is outside the try.
CheckFiles ==
    /\ pc = "check_files"
    /\ IF FilesMissing
       THEN /\ stdout' = Append(stdout, MissingFilesLine)
            /\ exit_status' = 1
            /\ pc' = "exited"
       ELSE /\ pc' = "load_second"
            /\ UNCHANGED <<stdout, exit_status>>
    /\ UNCHANGED <<inputs, dataframe2, dataframe1,
                   types_df1, types_df2, process_pool, k, tasks, handled,
                   similar_columns_list, final, exc, run, first_final>>

\* Lines 99-100: dataset B is read whole; reading can fail.
LoadSecond ==
    /\ pc = "load_second"
    /\ stdout' = Append(stdout, Info("Loading second file..."))
    /\ \/ /\ dataframe2' = TRUE
          /\ pc' = "load_first"
          /\ UNCHANGED exc
       \/ /\ RaiseToOuter("read_csv2")
          /\ UNCHANGED dataframe2
    /\ UNCHANGED <<inputs, dataframe1, types_df1,
                   types_df2, process_pool, k, tasks, handled,
                   similar_columns_list, final, exit_status, run, first_final>>

\* Lines 103-104: dataset A's lazy frame (dask samples the file's head).
LoadFirst ==
    /\ pc = "load_first"
    /\ stdout' = Append(stdout, Info("Loading first file in chunks..."))
    /\ \/ /\ dataframe1' = TRUE
          /\ pc' = "classify"
          /\ UNCHANGED exc
       \/ /\ RaiseToOuter("read_csv1")
          /\ UNCHANGED dataframe1
    /\ UNCHANGED <<inputs, dataframe2, types_df1,
                   types_df2, process_pool, k, tasks, handled,
                   similar_columns_list, final, exit_status, run, first_final>>

\* The type report of lines 112-118 for classifications t1 and t2.
TypeReport(t1, t2) ==
    <<Info("Column types for Sample 1:")>>
    \o [i \in DOMAIN ColumnsA |-> TypeLine("type1", ColumnsA[i], t1[i])]
    \o <<Info("Column types for Sample 2:")>>
    \o [i \in DOMAIN ColumnsB |-> TypeLine("type2", ColumnsB[i], t2[i])]

\* Lines 107-120: A is classified from head(1), which realizes the first
\* partition and can fail; B from its full frame.  The chunks of A carry
\* the dtypes of the frame's meta, so head(1) has the dtypes of every chunk.
ClassifyAndReport ==
    /\ pc = "classify"
    /\ \/ /\ types_df1' = determine_column_types(ColumnsA, dtype1)
          /\ types_df2' = determine_column_types(ColumnsB, dtype2)
          /\ stdout' = stdout \o <<Info("Determining column types...")>>
                        \o TypeReport(types_df1', types_df2')
                        \o <<Info("Comparing columns...")>>
          /\ pc' = "make_pool"
          /\ UNCHANGED exc
       \/ /\ stdout' = Append(stdout, Info("Determining column types..."))
          /\ RaiseToOuter("head")
          /\ UNCHANGED <<types_df1, types_df2>>
    /\ UNCHANGED <<inputs, dataframe2, dataframe1,
                   process_pool, k, tasks, handled, similar_columns_list,
                   final, exit_status, run, first_final>>

\* Lines 123-124: the pool is created (forking the workers can fail).
MakePool ==
    /\ pc = "make_pool"
    /\ \/ /\ process_pool' = "open"
          /\ similar_columns_list' = <<>>
          /\ pc' = "to_delayed"
          /\ UNCHANGED exc
       \/ /\ RaiseToOuter("Pool")
          /\ UNCHANGED <<process_pool, similar_columns_list>>
    /\ UNCHANGED <<inputs, dataframe2, dataframe1,
                   types_df1, types_df2, k, tasks, handled, final, stdout,
                   exit_status, run, first_final>>

\* Line 127, dataframe1.to_delayed(): evaluated once, inside the outer try
\* and outside the inner one.
ToDelayed ==
    /\ pc = "to_delayed"
    /\ \/ /\ pc' = "for_chunk"
          /\ UNCHANGED exc
       \/ RaiseToOuter("to_delayed")
    /\ UNCHANGED <<inputs, dataframe2, dataframe1,
                   types_df1, types_df2, process_pool, k, tasks, handled,
                   similar_columns_list, final, stdout, exit_status, run,
                   first_final>>

\* Line 127: the for loop takes the next delayed chunk, or ends.
ForChunk ==
    /\ pc = "for_chunk"
    /\ IF k < npartitions
       THEN /\ k' = k + 1
            /\ pc' = "compute"
       ELSE /\ pc' = "close"
            /\ UNCHANGED k
    /\ UNCHANGED <<inputs, dataframe2, dataframe1,
                   types_df1, types_df2, process_pool, tasks, handled,
                   similar_columns_list, final, stdout, exc, exit_status,
                   run, first_final>>

\* The inner except clause that lets the exception go on to the outer one.
InnerExceptPropagates == "except"

\* Where main() continues after the inner except clause (lines 132-133).
InnerExceptTarget == "for_chunk"

\* Lines 132-133: the chunk's exception is printed, the loop goes on.
InnerExcept(how) ==
    /\ handled' = [handled EXCEPT ![k] = how]
    /\ stdout' = Append(stdout, ChunkErrorLine)
    /\ pc' = InnerExceptTarget

\* Line 129: the chunk is realized (a dtype mismatch in its rows, a parse
\* error or a memory error makes compute() raise).
ComputeChunk ==
    /\ pc = "compute"
    /\ \/ /\ pc' = "submit"
          /\ UNCHANGED <<handled, stdout>>
       \/ InnerExcept("compute_failed")
    /\ UNCHANGED <<inputs, dataframe2, dataframe1,
                   types_df1, types_df2, process_pool, k, tasks,
                   similar_columns_list, final, exc, exit_status, run,
                   first_final>>

\* Line 130: apply_async queues process_chunk(computed_chunk, dataframe2).
Submit ==
    /\ pc = "submit"
    /\ tasks' = [tasks EXCEPT ![k] = [NoTask EXCEPT !.state = "queued"]]
    /\ pc' = "get"
    /\ UNCHANGED <<inputs, dataframe2, dataframe1,
                   types_df1, types_df2, process_pool, k, handled,
                   similar_columns_list, final, stdout, exc, exit_status,
                   run, first_final>>

\* A get() that does not wait for the task.
ReadyAtOnce(t) == t.state # "none"

\* AsyncResult.get() returns or raises once the task has ended.
Ready(t) == t.state \in {"success", "error"}

\* Line 131: chunk_results.get() blocks until the task has ended, then the
\* list is extended by the result, or the task's exception is raised again.
Get ==
    /\ pc = "get"
    /\ Ready(tasks[k])
    /\ IF tasks[k].state = "success"
       THEN /\ similar_columns_list' =
                    similar_columns_list \o tasks[k].similar_columns
            /\ handled' = [handled EXCEPT ![k] = "retrieved"]
            /\ pc' = "for_chunk"
            /\ UNCHANGED stdout
       ELSE /\ InnerExcept("task_failed")
            /\ UNCHANGED similar_columns_list
    /\ UNCHANGED <<inputs, dataframe2, dataframe1,
                   types_df1, types_df2, process_pool, k, tasks, final, exc,
                   exit_status, run, first_final>>

\* Line 136.
ClosePool ==
    /\ pc = "close"
    /\ process_pool' = "closed"
    /\ pc' = "join"
    /\ UNCHANGED <<inputs, dataframe2, dataframe1,
                   types_df1, types_df2, k, tasks, handled,
                   similar_columns_list, final, stdout, exc, exit_status,
                   run, first_final>>

\* Line 137: join() returns when the workers have ended, which they do
\* once no task is left.
JoinPool ==
    /\ pc = "join"
    /\ \A c \in Chunks : tasks[c].state \notin {"queued", "running"}
    /\ process_pool' = "joined"
    /\ pc' = "aggregate"
    /\ UNCHANGED <<inputs, dataframe2, dataframe1,
                   types_df1, types_df2, k, tasks, handled,
                   similar_columns_list, final, stdout, exc, exit_status,
                   run, first_final>>

\* Deduplication by the column pair alone.
DistinctPairs(seq) ==
    {seq[i] : i \in {j \in DOMAIN seq :
        \A h \in 1..(j - 1) : seq[h][1] # seq[j][1] \/ seq[h][2] # seq[j][2]}}

\* set(similar_columns_list): tuples are equal when all components are.
Distinct(seq) == ToSet(seq)

\* Line 140: sorted(set(similar_columns_list), key=..., reverse=True).
Aggregate ==
    /\ pc = "aggregate"
    /\ \E order \in IterationOrders(Distinct(similar_columns_list)) :
           final' = SortedByScore(order)
    /\ pc' = "report"
    /\ UNCHANGED <<inputs, dataframe2, dataframe1,
                   types_df1, types_df2, process_pool, k, tasks, handled,
                   similar_columns_list, stdout, exc, exit_status, run,
                   first_final>>

\* Lines 143-145, then main() returns and the process ends with status 0.
Report ==
    /\ pc = "report"
    /\ stdout' = stdout \o <<Info("Similar columns:")>>
                  \o [i \in DOMAIN final |-> MatchLine(final[i])]
    /\ exit_status' = 0
    /\ pc' = "exited"
    /\ UNCHANGED <<inputs, dataframe2, dataframe1,
                   types_df1, types_df2, process_pool, k, tasks, handled,
                   similar_columns_list, final, exc, run, first_final>>

\* The outer except clause ending the process with status 0.
OuterExceptExitZero ==
    /\ pc = "except"
    /\ stdout' = Append(stdout, FatalLine)
    /\ exit_status' = 0
    /\ pc' = "exited"
    /\ UNCHANGED <<inputs, dataframe2, dataframe1,
                   types_df1, types_df2, process_pool, k, tasks, handled,
                   similar_columns_list, final, exc, run, first_final>>

\* Lines 147-149: the outer except clause.
OuterExcept ==
    /\ pc = "except"
    /\ stdout' = Append(stdout, FatalLine)
    /\ exit_status' = 1
    /\ pc' = "exited"
    /\ UNCHANGED <<inputs, dataframe2, dataframe1,
                   types_df1, types_df2, process_pool, k, tasks, handled,
                   similar_columns_list, final, exc, run, first_final>>

\* ------------------------------------------------------- pool workers
InFlight == {c \in Chunks : tasks[c].state \in {"queued", "running"}}
Running == {c \in Chunks : tasks[c].state = "running"}
WorkersAlive == process_pool \in {"open", "closed"} /\ pc # "exited"

\* An idle worker takes a queued task.
StartTask(c) ==
    /\ WorkersAlive
    /\ tasks[c].state = "queued"
    /\ Cardinality(Running) < CpuCount
    /\ tasks' = [tasks EXCEPT ![c].state = "running"]
    /\ UNCHANGED <<inputs, pc, dataframe2,
                   dataframe1, types_df1, types_df2, process_pool, k, handled,
                   similar_columns_list, final, stdout, exc, exit_status,
                   run, first_final>>

\* Lines 78-85: the worker scores the next pair of columns.
ScorePair(c) ==
    /\ WorkersAlive
    /\ tasks[c].state = "running"
    /\ tasks[c].n < NumPairs
    /\ LET p == PairAt(tasks[c].n + 1)
       IN  \E lib \in LibOutcomes(Dispatch(dtype1[p.i], dtype2[p.j])) :
               LET step == LoopBody(tasks[c], lib)
               IN  /\ tasks' = [tasks EXCEPT ![c] = step.task]
                   /\ stdout' = stdout \o step.printed
    /\ UNCHANGED <<inputs, pc, dataframe2,
                   dataframe1, types_df1, types_df2, process_pool, k, handled,
                   similar_columns_list, final, exc, exit_status, run,
                   first_final>>

\* Line 86: process_chunk returns similar_columns; the task has ended.
FinishTask(c) ==
    /\ WorkersAlive
    /\ tasks[c].state = "running"
    /\ tasks[c].n = NumPairs
    /\ tasks' = [tasks EXCEPT ![c].state = "success"]
    /\ UNCHANGED <<inputs, pc, dataframe2,
                   dataframe1, types_df1, types_df2, process_pool, k, handled,
                   similar_columns_list, final, stdout, exc, exit_status,
                   run, first_final>>

\* The task raises outside the per-pair try (its arguments or its result
\* cannot be pickled, the worker runs out of memory): its result is the
\* exception, whatever it had collected is lost.
TaskFail(c) ==
    /\ WorkersAlive
    /\ tasks[c].state \in {"queued", "running"}
    /\ tasks' = [tasks EXCEPT ![c] = [NoTask EXCEPT !.state = "error"]]
    /\ UNCHANGED <<inputs, pc, dataframe2,
                   dataframe1, types_df1, types_df2, process_pool, k, handled,
                   similar_columns_list, final, stdout, exc, exit_status,
                   run, first_final>>

\* ----------------------------------------------------- specifications
Next ==
    \/ CheckFiles
    \/ LoadSecond
    \/ LoadFirst
    \/ ClassifyAndReport
    \/ MakePool
    \/ ToDelayed
    \/ ForChunk
    \/ ComputeChunk
    \/ Submit
    \/ Get
    \/ ClosePool
    \/ JoinPool
    \/ Aggregate
    \/ Report
    \/ OuterExcept
    \/ \E c \in Chunks : StartTask(c)
    \/ \E c \in Chunks : ScorePair(c)
    \/ \E c \in Chunks : FinishTask(c)
    \/ \E c \in Chunks : TaskFail(c)

Spec == Init /\ [][Next]_vars

\* A second run of the program on the same files, in which every
\* operation outside the program's control ends as in the first run.  Up to
\* line 137 the run retraces the first one: each step is a function of the
\* inputs and of those outcomes.  From line 140 on it runs again in its own
\* process, where set() iterates in an order of its own.
SecondRun ==
    /\ pc = "exited"
    /\ exit_status = 0
    /\ run = 1
    /\ run' = 2
    /\ first_final' = final
    /\ final' = <<>>
    /\ LET BeforeLine140(line) ==
               line.kind # "match" /\ line # Info("Similar columns:")
       IN  stdout' = SelectSeq(stdout, BeforeLine140)
    /\ pc' = "aggregate"
    /\ UNCHANGED <<inputs, dataframe2, dataframe1,
                   types_df1, types_df2, process_pool, k, tasks, handled,
                   similar_columns_list, exc, exit_status>>

NextTwoRuns == Next \/ SecondRun

SpecTwoRuns == Init /\ [][NextTwoRuns]_vars

\* ------------------------------------------------------------- claims
\* The index of a column name in its dataset.
IndexA(name) == CHOOSE i \in DOMAIN ColumnsA : ColumnsA[i] = name
IndexB(name) == CHOOSE j \in DOMAIN ColumnsB : ColumnsB[j] = name

\* The printed lines of one kind, in order.
LinesOfKind(kind) ==
    LET IsKind(line) == line.kind = kind IN SelectSeq(stdout, IsKind)

\* Every triple held anywhere: in a task's result, in main()'s collection,
\* in the final list, or printed as a match.
TriplesAnywhere ==
    UNION {ToSet(tasks[c].similar_columns) : c \in Chunks}
    \cup ToSet(similar_columns_list)
    \cup ToSet(final)
    \cup ToSet(first_final)
    \cup {<<line.a, line.b, line.s>> : line \in ToSet(LinesOfKind("match"))}

\* The triple, if any, that task t holds for the pair it scored last.
HeldForLastPair(t) ==
    {t.similar_columns[i] : i \in {h \in DOMAIN t.similar_columns :
        /\ t.similar_columns[h][1] = ColumnsA[PairAt(t.n).i]
        /\ t.similar_columns[h][2] = ColumnsB[PairAt(t.n).j]}}

Failed == {c \in Chunks : handled[c] \in {"compute_failed", "task_failed"}}
Retrieved == {c \in Chunks : handled[c] = "retrieved"}

\* C1. Threshold invariant: every triple in a chunk's result, in the
\* collected list, in the final list and in the printed matches has a score
\* above 0.8; a pair scored at 0.8 or below (exactly 0.8, the 0.0 fallback,
\* NaN) is not added to its chunk's result.
ThresholdInvariant ==
    /\ \A t \in TriplesAnywhere : t[3] > Threshold
    /\ \A c \in Chunks :
          LET t == tasks[c]
          IN  t.n > 0 =>
                \A held \in HeldForLastPair(t) :
                    /\ ~t.similarity_score.nan
                    /\ t.similarity_score.v > Threshold
                    /\ held[3] = t.similarity_score.v

\* C1 witness: a run has ended with a non-empty final list although some
\* chunk's last pair scored exactly 0.8.
ThresholdWitness ==
    /\ pc = "exited"
    /\ final # <<>>
    /\ \E c \in Chunks :
          /\ tasks[c].state = "success"
          /\ tasks[c].similarity_score = Num(Threshold)

\* Whether two classified types do not allow a comparison.
TypesDiffer(t1, t2) == t1 # t2 \/ t1 = "unknown" \/ t2 = "unknown"

\* C2. Type-mismatch invariant: when the pair a worker scored last has
\* classified types that differ (or an unknown one), the scorer returned
\* exactly 0.0 without calling a library and the pair is not in the chunk's
\* result; no triple held or printed anywhere is of such a pair.
TypeMismatchInvariant ==
    /\ \A c \in Chunks :
          LET t == tasks[c]
          IN  (t.n > 0 /\ TypesDiffer(types_df1[PairAt(t.n).i],
                                      types_df2[PairAt(t.n).j])) =>
                /\ t.similarity_score = Zero
                /\ t.kernel = "not_called"
                /\ HeldForLastPair(t) = {}
    /\ \A t \in TriplesAnywhere :
          ~TypesDiffer(types_df1[IndexA(t[1])], types_df2[IndexB(t[2])])

\* C2 witness: a run has reported matches while dataset A's first column
\* was classified numeric and dataset B's column string.
TypeMismatchWitness ==
    /\ pc = "exited"
    /\ LinesOfKind("match") # <<>>
    /\ types_df1[1] = "numeric"
    /\ types_df2[1] = "string"
    /\ \A c \in Chunks : npartitions >= c => tasks[c].state = "success"

\* C3. Missing-file behaviour: with either file absent the run never gets
\* past the check: nothing is loaded, classified or reported, no pool is
\* made, no chunk is submitted, no pair is scored; it ends with status 1
\* having printed the one error line.
MissingFileBehaviour ==
    (~exists1 \/ ~exists2) =>
        /\ pc \in {"check_files", "exited"}
        /\ ~dataframe2 /\ ~dataframe1
        /\ \A i \in DOMAIN ColumnsA : types_df1[i] = "unset"
        /\ \A j \in DOMAIN ColumnsB : types_df2[j] = "unset"
        /\ process_pool = "none"
        /\ k = 0
        /\ \A c \in Chunks : tasks[c] = NoTask /\ handled[c] = "pending"
        /\ similar_columns_list = <<>> /\ final = <<>>
        /\ pc = "check_files" => stdout = <<>>
        /\ pc = "exited" => exit_status = 1 /\ stdout = <<MissingFilesLine>>

\* C3 witness: the run has ended with dataset A present and B absent.
MissingFileWitness ==
    pc = "exited" /\ exists1 /\ ~exists2

\* The results of the chunks retrieved among chunks 1..c, concatenated.
RECURSIVE RetrievedUpTo(_)
RetrievedUpTo(c) ==
    IF c = 0 THEN <<>>
    ELSE RetrievedUpTo(c - 1)
         \o (IF handled[c] = "retrieved"
             THEN tasks[c].similar_columns ELSE <<>>)

\* C4. Chunk failure isolation: a chunk's failure never reaches the outer
\* except clause; each failed chunk is logged once and contributes nothing
\* (the collection is the concatenation of the retrieved chunks' results);
\* once the loop is over every chunk was handled, every chunk that could be
\* realized was submitted, and the matches of every retrieved chunk are in
\* the final list and printed.
ChunkFailureIsolation ==
    /\ pc = "except" => exc # "none"
    /\ Len(LinesOfKind("chunk_error")) = Cardinality(Failed)
    /\ similar_columns_list = RetrievedUpTo(MaxChunks)
    /\ pc \in {"close", "join", "aggregate", "report"}
          \/ (pc = "exited" /\ exists1 /\ exists2 /\ exc = "none") =>
            \A c \in 1..npartitions :
                /\ handled[c] # "pending"
                /\ handled[c] # "compute_failed" => tasks[c].state # "none"
    /\ (pc = "exited" /\ exists1 /\ exists2 /\ exc = "none") =>
            /\ exit_status = 0
            /\ \A c \in Retrieved : \A t \in ToSet(tasks[c].similar_columns) :
                    /\ t \in ToSet(final)
                    /\ MatchLine(t) \in ToSet(stdout)

\* C4 witness: a run has ended in which an earlier chunk failed in its
\* worker and a later chunk's matches were retrieved.
ChunkFailureWitness ==
    /\ pc = "exited"
    /\ \E c1, c2 \in Chunks :
          /\ c1 < c2
          /\ handled[c1] = "task_failed"
          /\ handled[c2] = "retrieved"
          /\ tasks[c2].similar_columns # <<>>

\* C5. Exit status and partial results: a run that has ended has a nonzero
\* status exactly when a file was absent or an exception left the outer try
\* block, and then no match was printed; otherwise its status is 0 and the
\* printed matches are the final list, which holds the matches of every
\* retrieved chunk, also when other chunks failed.
ExitStatusAndPartialResults ==
    pc = "exited" =>
        /\ exit_status # 0 <=> (~exists1 \/ ~exists2 \/ exc # "none")
        /\ exit_status # 0 => LinesOfKind("match") = <<>>
        /\ exit_status = 0 =>
              /\ LinesOfKind("match") =
                    [i \in DOMAIN final |-> MatchLine(final[i])]
              /\ \A c \in Retrieved :
                    ToSet(tasks[c].similar_columns) \subseteq ToSet(final)

\* C5 witness: a run has ended with status 0 and printed matches although
\* a chunk failed.
ExitStatusWitness ==
    /\ pc = "exited"
    /\ exit_status = 0
    /\ Failed # {}
    /\ LinesOfKind("match") # <<>>

Aggregated == pc = "report" \/ (pc = "exited" /\ process_pool = "joined")

\* C7. Aggregation: the final list holds exactly the distinct triples of
\* the collected list, each once, by score non-increasing; triples that
\* differ in any component, the score included, stay separate entries.
AggregationCorrect ==
    Aggregated =>
        /\ ToSet(final) = ToSet(similar_columns_list)
        /\ \A i, j \in DOMAIN final : i < j =>
              /\ final[i] # final[j]
              /\ final[i][3] >= final[j][3]
        /\ \A i, j \in DOMAIN similar_columns_list :
              similar_columns_list[i] # similar_columns_list[j] =>
                \E g, h \in DOMAIN final :
                    /\ g # h
                    /\ final[g] = similar_columns_list[i]
                    /\ final[h] = similar_columns_list[j]

\* C7 witness: a run has ended in which two chunks reported the same
\* triple (merged into one entry) and one column pair has two entries with
\* different scores.
AggregationWitness ==
    /\ pc = "exited"
    /\ Len(similar_columns_list) > Len(final)
    /\ \E i, j \in DOMAIN final :
          /\ final[i][1] = final[j][1]
          /\ final[i][2] = final[j][2]
          /\ final[i][3] > final[j][3]

\* C8. Determinism: a second run on the same single-chunk input ends with
\* the same final list as the first, entries of equal score in the same
\* order.
Determinism ==
    (run = 2 /\ npartitions = 1 /\ pc \in {"report", "exited"}) =>
        final = first_final

\* C9. Serial dispatch: at most one task is queued or running; a chunk is
\* realized and submitted only when every chunk before it has been handled
\* (retrieved or its failure caught) and no chunk after it has been touched;
\* no task is queued or running once the pool is closed.
SerialDispatch ==
    /\ Cardinality({c \in Chunks :
            tasks[c].state \in {"queued", "running"}}) <= 1
    /\ \A c \in Chunks :
          /\ (pc \in {"compute", "submit", "get"} /\ c < k)
                => handled[c] # "pending"
          /\ tasks[c].state # "none" =>
                \A b \in 1..(c - 1) :
                    handled[b] # "pending"
                    /\ tasks[b].state \notin {"queued", "running"}
          /\ c > k => tasks[c].state = "none" /\ handled[c] = "pending"
    /\ process_pool \in {"closed", "joined"} =>
          \A c \in Chunks : tasks[c].state \notin {"queued", "running"}

\* C9 witness: the second chunk's task is running after the first chunk's
\* result was retrieved.
SerialDispatchWitness ==
    /\ tasks[2].state = "running"
    /\ handled[1] = "retrieved"
    /\ tasks[1].state = "success"

\* C10. Pool lifecycle: a run that has ended after acquiring the pool has
\* closed and joined it, and the results are aggregated and reported only
\* after the pool was joined.
PoolLifecycle ==
    /\ (pc = "exited" /\ process_pool # "none") => process_pool = "joined"
    /\ pc \in {"aggregate", "report"} => process_pool = "joined"

====
